---- MODULE Spec2Model ----
(***************************************************************************)
(* The ISAF model of src/isaf.py: six framework operators over a registry  *)
(* of input sets, the coupled unified equation with temporal decay, the    *)
(* SLSQP-driven optimizer and the validator.                               *)
(*                                                                         *)
(* Numbers.  The program computes in IEEE-754 doubles through numpy.  A    *)
(* value is modelled as a record [n, d]: the exact rational n/d when       *)
(* d > 0, and numpy's non-finite results when d = 0: 1/0 is +inf, -1/0 is  *)
(* -inf and 0/0 is nan.  numpy's default error state only warns on a       *)
(* division by zero or an invalid operation and yields inf or nan; the     *)
(* operators below follow that.  Rounding of finite values is not          *)
(* modelled, and exp(-0.1 t) is tabulated to two decimals.                 *)
(***************************************************************************)
EXTENDS Integers, Sequences, FiniteSets, TLC

VARIABLES
    time_horizon,       \* self.time_horizon
    temporal_coupling,  \* self.temporal_coupling, the decay vector
    framework_data,     \* self.framework_data: framework name -> input tuple
    coupling_matrices,  \* self.coupling_matrices: (name, name) -> coefficient
    pc,                 \* "idle", or "minimize" while optimize_strategy runs the solver
    ret,                \* the last completed call and what it returned or raised
    initial_guess,      \* optimize_strategy's local, the solver's x0
    bounds,             \* optimize_strategy's local, the box given to the solver
    cur,                \* the solver's current iterate and its objective value
    lastEval,           \* the vector the solver last passed to the objective
    nEvals              \* objective evaluations made in the running call

vars == <<time_horizon, temporal_coupling, framework_data, coupling_matrices,
          pc, ret, initial_guess, bounds, cur, lastEval, nEvals>>

\* The stored model state of an ISAF instance.
model_state == <<time_horizon, temporal_coupling, framework_data, coupling_matrices>>

\* The locals of a running optimize_strategy call and the solver's bookkeeping.
solver_state == <<initial_guess, bounds, cur, lastEval, nEvals>>

-----------------------------------------------------------------------------
(* Bounds of the model *)

\* Largest time_horizon a model is constructed with.
MaxT == 2

\* Largest number of objective evaluations the solver makes in one call.
MaxEvals == 2

-----------------------------------------------------------------------------
(* float64 arithmetic as numpy performs it *)

Sign(n) == IF n > 0 THEN 1 ELSE IF n < 0 THEN -1 ELSE 0

AbsInt(n) == IF n < 0 THEN -n ELSE n

RECURSIVE GCD(_, _)
GCD(a, b) == IF b = 0 THEN a ELSE GCD(b, a % b)

\* The value n/d in lowest terms; d = 0 gives inf, -inf or nan by the sign of n.
Q(n, d) ==
    IF d = 0 THEN [n |-> Sign(n), d |-> 0]
    ELSE LET g == GCD(AbsInt(n), AbsInt(d))
             s == Sign(d)
         IN  [n |-> (s * n) \div g, d |-> (s * d) \div g]

Zero == [n |-> 0, d |-> 1]
One == [n |-> 1, d |-> 1]
NaN == [n |-> 0, d |-> 0]
Inf == [n |-> 1, d |-> 0]

IsNaN(a) == a.d = 0 /\ a.n = 0
IsFinite(a) == a.d > 0

Neg(a) == [n |-> -a.n, d |-> a.d]

Add(a, b) ==
    IF IsNaN(a) \/ IsNaN(b) THEN NaN
    ELSE IF a.d = 0 /\ b.d = 0 THEN (IF a.n = b.n THEN a ELSE NaN)
    ELSE IF a.d = 0 THEN a
    ELSE IF b.d = 0 THEN b
    ELSE LET g == GCD(a.d, b.d)
         IN  Q(a.n * (b.d \div g) + b.n * (a.d \div g), (a.d \div g) * b.d)

Sub(a, b) == Add(a, Neg(b))

Mul(a, b) ==
    IF a.d = 0 \/ b.d = 0 THEN [n |-> Sign(a.n) * Sign(b.n), d |-> 0]
    ELSE LET g1 == GCD(AbsInt(a.n), b.d)
             g2 == GCD(AbsInt(b.n), a.d)
         IN  Q((a.n \div g1) * (b.n \div g2), (a.d \div g2) * (b.d \div g1))

\* 1/b: 1/0 is inf, 1/inf is 0.
Reciprocal(b) ==
    IF b.d = 0 THEN (IF b.n = 0 THEN NaN ELSE Zero)
    ELSE Q(b.d, b.n)

\* numpy true division: x/0 is inf, -inf or nan, never an exception.
Div(a, b) == Mul(a, Reciprocal(b))

\* a < b as IEEE-754 compares: false when either side is nan.
Less(a, b) ==
    IF IsNaN(a) \/ IsNaN(b) THEN FALSE
    ELSE IF a.d = 0 /\ b.d = 0 THEN a.n < b.n
    ELSE IF a.d = 0 THEN a.n < 0
    ELSE IF b.d = 0 THEN b.n > 0
    ELSE a.n * b.d < b.n * a.d

\* a >= b as IEEE-754 compares: false when either side is nan.
Geq(a, b) == ~IsNaN(a) /\ ~IsNaN(b) /\ ~Less(a, b)

AbsVal(a) == [n |-> AbsInt(a.n), d |-> a.d]

RECURSIVE Bisect(_, _, _)
\* The k with k*k <= x < (k+1)*(k+1), given lo*lo <= x < hi*hi.
Bisect(x, lo, hi) ==
    IF hi - lo <= 1 THEN lo
    ELSE LET mid == (lo + hi) \div 2
         IN  IF mid * mid <= x THEN Bisect(x, mid, hi) ELSE Bisect(x, lo, mid)

ISqrt(x) == Bisect(x, 0, IF x < 46340 THEN x + 1 ELSE 46340)

IsSquare(x) == ISqrt(x) * ISqrt(x) = x

\* np.sqrt: exact on squares of rationals, to one decimal (rounded down)
\* otherwise; nan for a negative or nan argument.
Sqrt(a) ==
    IF a.d = 0 THEN (IF a.n = 1 THEN Inf ELSE NaN)
    ELSE IF a.n < 0 THEN NaN
    ELSE IF IsSquare(a.n) /\ IsSquare(a.d) THEN Q(ISqrt(a.n), ISqrt(a.d))
    ELSE Q(ISqrt(100 * (a.n \div a.d) + (100 * (a.n % a.d)) \div a.d), 10)

RECURSIVE SumSeq(_)
\* np.sum / sum() over a sequence of values.
SumSeq(s) == IF s = <<>> THEN Zero ELSE Add(Head(s), SumSeq(Tail(s)))

\* np.mean: sum over length; the mean of an empty array is nan.
Mean(s) == Div(SumSeq(s), Q(Len(s), 1))

\* The elements of a sequence given as a function on 1..n, computed once.
Arr(f) == SubSeq(f, 1, Len(f))

\* np.exp(-0.1 * t), in hundredths.
ExpDecay(t) == Q(<<100, 90, 82, 74, 67, 61, 55, 50>>[t + 1], 100)

-----------------------------------------------------------------------------
(* Input sets the caller supplies (numpy arrays of equal length per group) *)

\* n tenths.
D(n) == Q(n, 10)

FrameworkNames == {"pestel", "five_forces", "swot", "bcg", "ansoff", "blue_ocean"}

\* (factors, weights, probabilities, impacts)
PestelInputs ==
    { <<  <<"A", "B">>, <<D(6), D(4)>>, <<D(5), D(5)>>, <<D(100), D(200)>>  >> }

\* (forces, influence_matrix)
FiveForcesInputs ==
    { <<  <<D(2), D(3)>>, << <<Zero, One>>, <<One, Zero>> >>  >> }

\* (internal_factors, external_factors, interaction_tensor)
SwotInputs ==
    { <<  <<One, One>>, <<One>>, << <<D(20)>>, <<D(20)>> >>  >>,
      <<  <<>>, <<>>, <<>>  >> }

\* (market_share, growth_rate)
BcgInputs ==
    { <<  <<D(8)>>, <<D(5)>>  >> }

\* (strategy_success, strategy_risk)
AnsoffInputs ==
    { <<  <<D(7)>>, <<D(2)>>  >> }

\* (differentiation, cost_leadership)
BlueOceanInputs ==
    { <<  <<D(6)>>, <<D(4)>>  >>,
      <<  <<D(6)>>, <<Zero>>  >> }

\* The coefficients the caller stores, as (key, value): under the first pair
\* the equation reads, the default value spelled out and a negative one (with
\* the inputs above it brings the strategic state to 0), and the negative one
\* under that pair reversed, a key the equation never reads.
CouplingStores ==
    { << <<"pestel", "five_forces">>, D(3) >>,
      << <<"pestel", "five_forces">>, D(-25) >>,
      << <<"five_forces", "pestel">>, D(-25) >> }

\* Arguments t the caller passes to the unified equation.
TimeArgs == (0 - MaxT - 1) .. MaxT

-----------------------------------------------------------------------------
(* Results of a call: a returned value or the exception raised *)

\* status is "ok" or the exception's name, val the returned scalars; op, t,
\* actual and x are filled in by the call that is recorded (see Call).
Returned(v) ==
    [op |-> "none", t |-> 0, actual |-> <<>>, status |-> "ok", val |-> v, x |-> <<>>]
Raised(e) ==
    [op |-> "none", t |-> 0, actual |-> <<>>, status |-> e, val |-> <<>>, x |-> <<>>]

\* Calls made one after the other: r is the result of the first, rest the
\* results of those after it, which are not made when the first raises.
Then(r, rest) == IF r.status # "ok" THEN <<r>> ELSE <<r>> \o rest

\* Whether the last of the calls made, with results r, raised, and what.
Failed(r) == r # <<>> /\ r[Len(r)].status # "ok"
FirstFailure(r) == r[Len(r)]

\* The values the calls returned.
Values(r) == Arr([k \in 1..Len(r) |-> r[k].val[1]])

\* dict.__getitem__: a key never stored raises KeyError.
Supplied(fd, name) == name \in DOMAIN fd

\* dict.__setitem__ on framework_data.
Store(fd, name, v) ==
    [k \in (DOMAIN fd) \cup {name} |-> IF k = name THEN v ELSE fd[k]]

-----------------------------------------------------------------------------
(* The six framework operators *)

\* pestel_operator reading its inputs with a default instead of indexing.
pestel_operator_default(fd) ==
    IF ~Supplied(fd, "pestel") THEN Returned(<<Zero>>)
    ELSE LET factors == fd["pestel"][1]
             weights == fd["pestel"][2]
             probabilities == fd["pestel"][3]
             impacts == fd["pestel"][4]
         IN  Returned(<<SumSeq([i \in 1..Len(factors) |->
                          Mul(Mul(weights[i], probabilities[i]), impacts[i])])>>)

pestel_operator(fd) ==
    IF ~Supplied(fd, "pestel") THEN Raised("KeyError")
    ELSE LET factors == fd["pestel"][1]
             weights == fd["pestel"][2]
             probabilities == fd["pestel"][3]
             impacts == fd["pestel"][4]
         IN  Returned(<<SumSeq([i \in 1..Len(factors) |->
                          Mul(Mul(weights[i], probabilities[i]), impacts[i])])>>)

\* [W[i, j] for j in range(len(forces)) if j != i]
OffDiagonal(W, i, M) ==
    [k \in 1..(M - 1) |-> IF k < i THEN W[i][k] ELSE W[i][k + 1]]

five_forces_operator(fd) ==
    IF ~Supplied(fd, "five_forces") THEN Raised("KeyError")
    ELSE LET forces == fd["five_forces"][1]
             W == fd["five_forces"][2]
             M == Len(forces)
             pressure == SumSeq([i \in 1..M |->
                             Mul(forces[i], SumSeq(OffDiagonal(W, i, M)))])
         IN  Returned(<<Sub(One, Div(pressure, Q(M, 1)))>>)

RECURSIVE Flatten(_)
Flatten(rows) == IF rows = <<>> THEN <<>> ELSE Head(rows) \o Flatten(Tail(rows))

swot_operator(fd) ==
    IF ~Supplied(fd, "swot") THEN Raised("KeyError")
    ELSE LET internal == fd["swot"][1]
             external == fd["swot"][2]
             tensor == fd["swot"][3]
             tensor_sum == SumSeq(Flatten(tensor))
         IN  Returned(<<Div(tensor_sum, Q(Len(internal) * Len(external), 1))>>)

bcg_operator(fd) ==
    IF ~Supplied(fd, "bcg") THEN Raised("KeyError")
    ELSE LET market_share == fd["bcg"][1]
             growth_rate == fd["bcg"][2]
         IN  Returned(<<Mean([i \in 1..Len(market_share) |->
                          Mul(market_share[i], growth_rate[i])])>>)

ansoff_operator(fd) ==
    IF ~Supplied(fd, "ansoff") THEN Raised("KeyError")
    ELSE LET success == fd["ansoff"][1]
             risk == fd["ansoff"][2]
         IN  Returned(<<Mean([i \in 1..Len(success) |-> Sub(success[i], risk[i])])>>)

blue_ocean_operator(fd) ==
    IF ~Supplied(fd, "blue_ocean") THEN Raised("KeyError")
    ELSE LET differentiation == fd["blue_ocean"][1]
             cost == fd["blue_ocean"][2]
         IN  Returned(<<Mean([i \in 1..Len(differentiation) |->
                          Div(differentiation[i], cost[i])])>>)

Operator(name, fd) ==
    CASE name = "pestel" -> pestel_operator(fd)
      [] name = "five_forces" -> five_forces_operator(fd)
      [] name = "swot" -> swot_operator(fd)
      [] name = "bcg" -> bcg_operator(fd)
      [] name = "ansoff" -> ansoff_operator(fd)
      [] name = "blue_ocean" -> blue_ocean_operator(fd)

-----------------------------------------------------------------------------
(* The unified equation *)

\* The coefficient every absent pair gets: the 0.3 of coupling_matrices.get.
DefaultCoupling == Q(3, 10)

\* The coefficient looked up under the pair in either order.
CouplingUnordered(cm, x, y) ==
    IF <<x, y>> \in DOMAIN cm THEN cm[<<x, y>>]
    ELSE IF <<y, x>> \in DOMAIN cm THEN cm[<<y, x>>]
    ELSE Q(3, 10)

\* coupling_matrices.get((x, y), 0.3)
Coupling(cm, x, y) == IF <<x, y>> \in DOMAIN cm THEN cm[<<x, y>>] ELSE DefaultCoupling

\* temporal_coupling[t] as numpy indexes: -len <= t < 0 counts from the end,
\* anything else outside 0..len-1 raises IndexError.
IndexDecay(tc, t) ==
    IF 0 <= t /\ t < Len(tc) THEN Returned(<<tc[t + 1]>>)
    ELSE IF 0 - Len(tc) <= t /\ t < 0 THEN Returned(<<tc[Len(tc) + t + 1]>>)
    ELSE Raised("IndexError")

\* The order in which the equation invokes the operators.
OperatorOrder == <<"pestel", "five_forces", "swot", "bcg", "ansoff", "blue_ocean">>

RECURSIVE ScoresFrom(_, _)
\* The results of the operators from the k-th on, up to the first that raises.
ScoresFrom(fd, k) ==
    IF k > 6 THEN <<>>
    ELSE Then(Operator(OperatorOrder[k], fd), ScoresFrom(fd, k + 1))

Scores(fd) == ScoresFrom(fd, 1)

\* The coupling effect and the strategic state from the six scores sc
\* (pestel, forces, swot, bcg, ansoff, blue_ocean).
coupling_effect(cm, sc) ==
    SumSeq(Arr([k \in 1..5 |->
        Mul(Mul(Coupling(cm, OperatorOrder[k], OperatorOrder[k + 1]), sc[k]), sc[k + 1])]))

strategic_state(cm, sc) == Add(SumSeq(sc), coupling_effect(cm, sc))

\* strategic_state * self.temporal_coupling[t]
Decayed(state, decay) ==
    IF decay.status # "ok" THEN decay ELSE Returned(<<Mul(state, decay.val[1])>>)

\* The equation on the operators' results r: the first operator that raised
\* ends the call; the coefficients and the decay are read after all six.
Equation(r, cm, tc, t) ==
    IF Failed(r) THEN FirstFailure(r)
    ELSE Decayed(strategic_state(cm, Values(r)), IndexDecay(tc, t))

unified_hyperfunctional_equation(fd, cm, tc, t) == Equation(Scores(fd), cm, tc, t)

-----------------------------------------------------------------------------
(* The validator *)

RECURSIVE PredictedFrom(_, _, _, _, _)
\* The results of the equation at t, t+1, .., T-1, up to the first that raises.
PredictedFrom(fd, cm, tc, T, t) ==
    IF t >= T THEN <<>>
    ELSE Then(unified_hyperfunctional_equation(fd, cm, tc, t),
              PredictedFrom(fd, cm, tc, T, t + 1))

\* [unified_hyperfunctional_equation(t) for t in range(time_horizon)]
Predicted(fd, cm, tc, T) == PredictedFrom(fd, cm, tc, T, 0)

Square(a) == Mul(a, a)

\* R squared that reports a perfect fit when the outcomes have no variance.
RSquaredGuarded(residual, total) ==
    IF total = Zero THEN One ELSE Sub(One, Div(residual, total))

\* 1 - residual / total; a zero total gives nan or -inf, not an exception.
RSquared(residual, total) == Sub(One, Div(residual, total))

\* actual_outcomes - x, elementwise
Deviations(actual_outcomes, x) ==
    Arr([k \in 1..Len(actual_outcomes) |-> Sub(actual_outcomes[k], x[k])])

Squares(errors) == Arr([k \in 1..Len(errors) |-> Square(errors[k])])

\* actual_outcomes - np.mean(actual_outcomes)
Centred(actual_outcomes, mean_actual) ==
    Arr([k \in 1..Len(actual_outcomes) |-> Sub(actual_outcomes[k], mean_actual)])

\* The three metrics from the errors actual - predicted.
Metrics(errors, actual_outcomes) ==
    Returned(<< Sqrt(Mean(Squares(errors))),
                Mean(Arr([k \in 1..Len(errors) |-> AbsVal(errors[k])])),
                RSquared(SumSeq(Squares(errors)),
                         SumSeq(Squares(Centred(actual_outcomes, Mean(actual_outcomes))))) >>)

\* validate_model on the results pred of the equation at t = 0..T-1.
Validate(pred, actual_outcomes) ==
    IF Failed(pred) THEN FirstFailure(pred)
    ELSE Metrics(Deviations(actual_outcomes, Values(pred)), actual_outcomes)

validate_model(fd, cm, tc, T, actual_outcomes) ==
    Validate(Predicted(fd, cm, tc, T), actual_outcomes)

\* The outcome sequences a caller passes: the model's own predictions (when
\* it can compute them) and a constant sequence.
OwnPredictions(pred) == IF Failed(pred) THEN {} ELSE {Values(pred)}

ActualChoices(fd, cm, tc, T) ==
    OwnPredictions(Predicted(fd, cm, tc, T))
        \cup {Arr([k \in 1..T |-> One])}

-----------------------------------------------------------------------------
(* The optimizer *)

Half == Q(1, 2)

\* np.ones(M) * 0.5
initial_guess_of(forces) == [i \in 1..Len(forces) |-> Half]

\* The box with a wrong upper bound.
bounds_of_wide(guess) == [i \in 1..Len(guess) |-> <<Zero, Q(2, 1)>>]

\* [(0, 1)] * len(initial_guess)
bounds_of(guess) == [i \in 1..Len(guess) |-> <<Zero, One>>]

\* objective rebuilding the registry around the candidate.
objective_store_rebuild(fd, decisions) ==
    [k \in {"five_forces"} |-> <<decisions, fd["five_forces"][2]>>]

\* The first statement of objective: the candidate replaces the stored
\* forces, the influence matrix is kept.
objective_store(fd, decisions) ==
    Store(fd, "five_forces", <<decisions, fd["five_forces"][2]>>)

\* The second statement of objective, on the updated registry:
\* -np.sum([unified_hyperfunctional_equation(t) for t in range(T)])
NegatedSum(pred) ==
    IF Failed(pred) THEN FirstFailure(pred) ELSE Returned(<<Neg(SumSeq(Values(pred)))>>)

objective_value(fd, cm, tc, T) == NegatedSum(Predicted(fd, cm, tc, T))

RECURSIVE BoxCorners(_, _)
\* The corners of the box in its first k coordinates.
BoxCorners(bnds, k) ==
    IF k = 0 THEN {<<>>}
    ELSE {Append(s, v) : s \in BoxCorners(bnds, k - 1), v \in {bnds[k][1], bnds[k][2]}}

\* The vectors the solver may try: the start and the corners of the box.
TrialPoints(guess, bnds) == {guess} \cup BoxCorners(bnds, Len(bnds))

\* optimize_strategy committing the optimum it returns.
after_minimize_commit(fd, result_x) ==
    Store(fd, "five_forces", <<result_x, fd["five_forces"][2]>>)

\* What optimize_strategy leaves in the registry once minimize has returned
\* result: it stores nothing, neither result.x nor the caller's forces.
after_minimize(fd, result_x) == fd

\* SLSQP keeps a trial point only if the objective there is no larger
\* (an IEEE comparison, so a nan value is never kept).
Accepts(fx, fcur) == ~IsNaN(fx) /\ ~IsNaN(fcur) /\ ~Less(fcur, fx)

-----------------------------------------------------------------------------
(* The state machine: one caller, one call at a time *)

NoCall == Returned(<<>>)

\* The record of a completed call: the method, its argument t or
\* actual_outcomes, its result, and for optimize_strategy the vector returned.
Call(op, t, actual, result, x) ==
    [result EXCEPT !.op = op, !.t = t, !.actual = actual, !.x = x]

NoIterate == [x |-> <<>>, f |-> Zero]

\* ISAF.__init__
Init ==
    /\ time_horizon \in 0..MaxT
    /\ temporal_coupling = [k \in 1..time_horizon |-> ExpDecay(k - 1)]
    /\ framework_data = <<>>
    /\ coupling_matrices = <<>>
    /\ pc = "idle"
    /\ ret = NoCall
    /\ initial_guess = <<>>
    /\ bounds = <<>>
    /\ cur = NoIterate
    /\ lastEval = <<>>
    /\ nEvals = 0

Setter(name, v) ==
    /\ pc = "idle"
    /\ framework_data' = Store(framework_data, name, v)
    /\ ret' = Call("set_" \o name, 0, <<>>, Returned(<<>>), <<>>)
    /\ UNCHANGED <<time_horizon, temporal_coupling, coupling_matrices, pc>>
    /\ UNCHANGED solver_state

set_pestel_data == \E v \in PestelInputs : Setter("pestel", v)
set_five_forces_data == \E v \in FiveForcesInputs : Setter("five_forces", v)
set_swot_data == \E v \in SwotInputs : Setter("swot", v)
set_bcg_data == \E v \in BcgInputs : Setter("bcg", v)
set_ansoff_data == \E v \in AnsoffInputs : Setter("ansoff", v)
set_blue_ocean_data == \E v \in BlueOceanInputs : Setter("blue_ocean", v)

\* The caller stores a coefficient: model.coupling_matrices[key] = value
SetCoupling ==
    /\ pc = "idle"
    /\ \E kv \in CouplingStores :
           coupling_matrices' =
               [k \in (DOMAIN coupling_matrices) \cup {kv[1]} |->
                   IF k = kv[1] THEN kv[2] ELSE coupling_matrices[k]]
    /\ ret' = Call("set_coupling", 0, <<>>, Returned(<<>>), <<>>)
    /\ UNCHANGED <<time_horizon, temporal_coupling, framework_data, pc>>
    /\ UNCHANGED solver_state

\* A read that consumes the PESTEL inputs (dict.pop instead of indexing).
AfterReadPops(fd) == [k \in (DOMAIN fd) \ {"pestel"} |-> fd[k]]

\* What a call of an operator, of the equation or of the validator leaves in
\* the registry: these methods assign to no attribute.
AfterRead(fd) == fd

CallOperator ==
    /\ pc = "idle"
    /\ \E name \in FrameworkNames :
           ret' = Call(name \o "_operator", 0, <<>>, Operator(name, framework_data), <<>>)
    /\ framework_data' = AfterRead(framework_data)
    /\ UNCHANGED <<time_horizon, temporal_coupling, coupling_matrices, pc>>
    /\ UNCHANGED solver_state

CallUnified ==
    /\ pc = "idle"
    /\ \E t \in TimeArgs :
           ret' = Call("unified", t, <<>>,
                       unified_hyperfunctional_equation(framework_data, coupling_matrices,
                                                        temporal_coupling, t), <<>>)
    /\ framework_data' = AfterRead(framework_data)
    /\ UNCHANGED <<time_horizon, temporal_coupling, coupling_matrices, pc>>
    /\ UNCHANGED solver_state

CallValidate ==
    /\ pc = "idle"
    /\ \E actual \in ActualChoices(framework_data, coupling_matrices, temporal_coupling,
                                   time_horizon) :
           ret' = Call("validate", 0, actual,
                       validate_model(framework_data, coupling_matrices, temporal_coupling,
                                      time_horizon, actual), <<>>)
    /\ framework_data' = AfterRead(framework_data)
    /\ UNCHANGED <<time_horizon, temporal_coupling, coupling_matrices, pc>>
    /\ UNCHANGED solver_state

\* optimize_strategy up to the call of minimize.
OptimizeCall ==
    /\ pc = "idle"
    /\ IF ~Supplied(framework_data, "five_forces")
       THEN /\ ret' = Call("optimize", 0, <<>>, Raised("KeyError"), <<>>)
            /\ UNCHANGED <<pc, initial_guess, bounds>>
       ELSE /\ initial_guess' = initial_guess_of(framework_data["five_forces"][1])
            /\ bounds' = bounds_of(initial_guess')
            /\ pc' = "minimize"
            /\ UNCHANGED ret
    /\ UNCHANGED <<cur, lastEval, nEvals>>
    /\ UNCHANGED model_state

\* The solver evaluates objective(decisions): first at x0, then at points of
\* the box.  An exception raised by the objective ends optimize_strategy.
SolverEval ==
    /\ pc = "minimize"
    /\ nEvals < MaxEvals
    /\ \E decisions \in (IF nEvals = 0 THEN {initial_guess}
                         ELSE TrialPoints(initial_guess, bounds)) :
        \E fx \in {objective_value(objective_store(framework_data, decisions),
                                   coupling_matrices, temporal_coupling, time_horizon)} :
            /\ framework_data' = objective_store(framework_data, decisions)
            /\ IF fx.status # "ok"
               THEN /\ ret' = Call("optimize", 0, <<>>, fx, <<>>)
                    /\ pc' = "idle"
                    /\ initial_guess' = <<>>
                    /\ bounds' = <<>>
                    /\ cur' = NoIterate
                    /\ lastEval' = <<>>
                    /\ nEvals' = 0
               ELSE /\ lastEval' = decisions
                    /\ nEvals' = nEvals + 1
                    /\ \/ /\ nEvals = 0 \/ Accepts(fx.val[1], cur.f)
                          /\ cur' = [x |-> decisions, f |-> fx.val[1]]
                       \/ /\ nEvals > 0
                          /\ cur' = cur
                    /\ UNCHANGED <<ret, pc, initial_guess, bounds>>
    /\ UNCHANGED <<time_horizon, temporal_coupling, coupling_matrices>>

\* minimize returns its iterate; optimize_strategy returns result.x, -result.fun.
SolverReturn ==
    /\ pc = "minimize"
    /\ nEvals > 0
    /\ ret' = Call("optimize", 0, <<>>, Returned(<<Neg(cur.f)>>), cur.x)
    /\ pc' = "idle"
    /\ initial_guess' = <<>>
    /\ bounds' = <<>>
    /\ cur' = NoIterate
    /\ lastEval' = <<>>
    /\ nEvals' = 0
    /\ framework_data' = after_minimize(framework_data, cur.x)
    /\ UNCHANGED <<time_horizon, temporal_coupling, coupling_matrices>>

Next ==
    \/ set_pestel_data
    \/ set_five_forces_data
    \/ set_swot_data
    \/ set_bcg_data
    \/ set_ansoff_data
    \/ set_blue_ocean_data
    \/ SetCoupling
    \/ CallOperator
    \/ CallUnified
    \/ CallValidate
    \/ OptimizeCall
    \/ SolverEval
    \/ SolverReturn

Spec == Init /\ [][Next]_vars

\* A caller that sets inputs and coefficients and calls the operators, the
\* equation and the validator, but never the optimizer.
NextCalls ==
    \/ set_pestel_data
    \/ set_five_forces_data
    \/ set_swot_data
    \/ set_bcg_data
    \/ set_ansoff_data
    \/ set_blue_ocean_data
    \/ SetCoupling
    \/ CallOperator
    \/ CallUnified
    \/ CallValidate

SpecCalls == Init /\ [][NextCalls]_vars

\* A caller that uses every method and leaves the coupling coefficients at
\* their default.
NextOptimize ==
    \/ set_pestel_data
    \/ set_five_forces_data
    \/ set_swot_data
    \/ set_bcg_data
    \/ set_ansoff_data
    \/ set_blue_ocean_data
    \/ CallOperator
    \/ CallUnified
    \/ CallValidate
    \/ OptimizeCall
    \/ SolverEval
    \/ SolverReturn

SpecOptimize == Init /\ [][NextOptimize]_vars

-----------------------------------------------------------------------------
(* Properties *)

AllSupplied == \A name \in FrameworkNames : Supplied(framework_data, name)

InHorizon(t) == 0 <= t /\ t < time_horizon

StoredForces == framework_data["five_forces"][1]

\* The equation's results at t = 0..T-1 on the state as it is now.
PredictedNow ==
    Predicted(framework_data, coupling_matrices, temporal_coupling, time_horizon)

(* C1 *)
C1_Score(name) == Operator(name, framework_data).val[1]

C1_Coefficient(x, y) ==
    IF <<x, y>> \in DOMAIN coupling_matrices THEN coupling_matrices[<<x, y>>] ELSE Q(3, 10)

C1_Product(x, y) == Mul(Mul(C1_Coefficient(x, y), C1_Score(x)), C1_Score(y))

C1_State ==
    Add(Add(Add(Add(Add(Add(C1_Score("pestel"), C1_Score("five_forces")),
                        C1_Score("swot")), C1_Score("bcg")), C1_Score("ansoff")),
            C1_Score("blue_ocean")),
        Add(Add(Add(Add(C1_Product("pestel", "five_forces"),
                        C1_Product("five_forces", "swot")),
                    C1_Product("swot", "bcg")),
                C1_Product("bcg", "ansoff")),
            C1_Product("ansoff", "blue_ocean")))

C1_Decay(t) == IF t = 0 THEN One ELSE temporal_coupling[t + 1]

\* C1: with all six input sets supplied and 0 <= t < T, the unified equation
\* returns (p + f + s + b + a + o + c(p,f) p f + c(f,s) f s + c(s,b) s b +
\* c(b,a) b a + c(a,o) a o) * decay[t], where the six scores are those of the
\* stored inputs, decay[0] = 1, and c(x,y) is the coefficient stored under
\* exactly that ordered pair, or 0.3 when none is: a missing coefficient acts
\* as an explicit 0.3, and a coefficient under any other key changes nothing.
C1_UnifiedValue ==
    (ret.op = "unified" /\ AllSupplied /\ InHorizon(ret.t))
        => /\ ret.status = "ok"
           /\ ret.val = <<Mul(C1_State, C1_Decay(ret.t))>>

\* The equation has returned a finite value at t = 1 while a coefficient is
\* stored under the reversed pair only.
C1_Witness ==
    /\ ret.op = "unified" /\ ret.status = "ok" /\ ret.t = 1 /\ AllSupplied
    /\ <<"five_forces", "pestel">> \in DOMAIN coupling_matrices
    /\ <<"pestel", "five_forces">> \notin DOMAIN coupling_matrices
    /\ IsFinite(ret.val[1])

(* C2 *)
\* validate_model has returned, and was given the model's own predictions.
C2_RoundTrip ==
    /\ ret.op = "validate" /\ ret.status = "ok"
    /\ ~Failed(PredictedNow)
    /\ ret.actual = Values(PredictedNow)

C2_Finite == \A k \in 1..Len(ret.actual) : IsFinite(ret.actual[k])

C2_Constant == \A j, k \in 1..Len(ret.actual) : ret.actual[j] = ret.actual[k]

C3_Original ==
    (ret.op = "unified" /\ AllSupplied)
        => IF InHorizon(ret.t) THEN ret.status = "ok" ELSE ret.status = "IndexError"

(* C4 *)
C4_ZeroDenominator ==
    \/ /\ ret.op = "swot_operator" /\ Supplied(framework_data, "swot")
       /\ Len(framework_data["swot"][1]) * Len(framework_data["swot"][2]) = 0
    \/ /\ ret.op = "blue_ocean_operator" /\ Supplied(framework_data, "blue_ocean")
       /\ \E i \in 1..Len(framework_data["blue_ocean"][2]) :
              framework_data["blue_ocean"][2][i] = Zero
    \/ /\ ret.op = "validate" /\ AllSupplied /\ time_horizon >= 1
       /\ \A j, k \in 1..Len(ret.actual) : ret.actual[j] = ret.actual[k]

\* C4 as claimed: a zero denominator never yields a returned value; the SWOT
\* operator with I * E = 0, the Blue Ocean operator with a zero cost entry and
\* the validator on outcomes without variance each raise a division-by-zero
\* error.
C4_Original == C4_ZeroDenominator => ret.status = "ZeroDivisionError"

(* C5 *)
C5_Operators ==
    \A name \in FrameworkNames :
        ret.op = name \o "_operator"
            => (ret.status = "KeyError" <=> ~Supplied(framework_data, name))

\* C5 as claimed: an operator raises the missing-input error exactly when
\* its own input set was never supplied, and the unified equation, the
\* validator and the optimizer raise it whenever one of the six is missing.
C5_Original ==
    /\ C5_Operators
    /\ (ret.op \in {"unified", "validate", "optimize"} /\ ~AllSupplied)
           => ret.status = "KeyError"

\* C5 as amended: an operator raises the missing-input error exactly when
\* its own input set was never supplied; the unified equation raises it
\* exactly when one of the six is missing; validate_model raises it exactly
\* when one is missing and T >= 1; optimize_strategy raises it exactly when
\* the Five Forces set is missing, or another set is missing and T >= 1.
\* With T = 0 the equation is never evaluated, so the validator and the
\* optimizer return without it.
C5_Amended ==
    /\ C5_Operators
    /\ ret.op = "unified" => (ret.status = "KeyError" <=> ~AllSupplied)
    /\ ret.op = "validate"
           => (ret.status = "KeyError" <=> (~AllSupplied /\ time_horizon >= 1))
    /\ ret.op = "optimize"
           => (ret.status = "KeyError" <=>
                  \/ ~Supplied(framework_data, "five_forces")
                  \/ ~AllSupplied /\ time_horizon >= 1)

\* optimize_strategy has raised the error from inside the objective: the
\* Five Forces set was supplied, another one was not.
C5_Witness ==
    /\ ret.op = "optimize" /\ ret.status = "KeyError"
    /\ Supplied(framework_data, "five_forces")

(* C6 *)
C6_InUnitInterval(v) == Geq(v, Zero) /\ Geq(One, v)

C7_InitialObjective ==
    Neg(objective_value(objective_store(framework_data, initial_guess_of(StoredForces)),
                        coupling_matrices, temporal_coupling, time_horizon).val[1])

\* C7 as claimed: the objective value optimize_strategy returns is greater
\* than or equal to the objective at the initial uniform-0.5 vector.
C7_Original ==
    (ret.op = "optimize" /\ ret.status = "ok") => Geq(ret.val[1], C7_InitialObjective)

(* C8 *)
C8_Returns == pc = "minimize" /\ pc' = "idle" /\ ret'.status = "ok"

\* C8: from the call of optimize_strategy until it returns or raises, the
\* time horizon, the decay vector, the coupling coefficients, the five other
\* input sets and the influence matrix W stay as they were; every objective
\* evaluation overwrites the stored forces with its candidate, and no other
\* step of the call touches the registry.
C8_Frame ==
    [][ (pc = "minimize" \/ pc' = "minimize")
           => /\ time_horizon' = time_horizon
              /\ temporal_coupling' = temporal_coupling
              /\ coupling_matrices' = coupling_matrices
              /\ DOMAIN framework_data' = DOMAIN framework_data
              /\ \A name \in (DOMAIN framework_data) \ {"five_forces"} :
                     framework_data'[name] = framework_data[name]
              /\ framework_data'["five_forces"][2] = framework_data["five_forces"][2]
              /\ IF pc = "minimize" /\ ~C8_Returns
                 THEN /\ framework_data'["five_forces"][1]
                             \in TrialPoints(initial_guess, bounds)
                      /\ pc' = "minimize"
                             => /\ nEvals' = nEvals + 1
                                /\ framework_data'["five_forces"][1] = lastEval'
                 ELSE framework_data' = framework_data ]_vars

\* The solver has made two evaluations and the second one left a corner of
\* the box in the registry.
C8_Witness ==
    /\ pc = "minimize" /\ nEvals = 2
    /\ StoredForces = <<One, One>>

(* C9 *)
\* C9: when optimize_strategy returns, the stored forces vector is the
\* candidate of the last objective evaluation: the return stores neither the
\* caller's vector nor the optimum.
C9_LastIterate ==
    [][ /\ (pc = "minimize" /\ pc' = "minimize")
               => framework_data'["five_forces"][1] = lastEval'
        /\ C8_Returns => framework_data'["five_forces"][1] = lastEval ]_vars

\* optimize_strategy has returned an optimum that differs from the forces it
\* left in the registry, which are not the forces any caller supplied.
C9_Witness ==
    /\ ret.op = "optimize" /\ ret.status = "ok"
    /\ StoredForces # ret.x
    /\ \A v \in FiveForcesInputs : StoredForces # v[1]

(* C10 *)
C10_Reads ==
    {name \o "_operator" : name \in FrameworkNames} \cup {"unified", "validate"}

\* C10: a call of an operator, of the unified equation or of the validator
\* changes no input set, no coupling coefficient and not the decay vector,
\* whether it returns or raises, so that the equation called again with the
\* same t on the state it left returns what it returned; and a set_* call
\* changes its own framework's input set only.
C10_Pure ==
    [][ /\ ret'.op \in C10_Reads
               => /\ model_state' = model_state
                  /\ ret'.op = "unified"
                         => ret' = Call("unified", ret'.t, <<>>,
                                        unified_hyperfunctional_equation(
                                            framework_data', coupling_matrices',
                                            temporal_coupling', ret'.t), <<>>)
        /\ \A name \in FrameworkNames :
               ret'.op = "set_" \o name
                   => /\ DOMAIN framework_data' = (DOMAIN framework_data) \cup {name}
                      /\ \A other \in (DOMAIN framework_data) \ {name} :
                             framework_data'[other] = framework_data[other]
                      /\ coupling_matrices' = coupling_matrices
                      /\ time_horizon' = time_horizon
                      /\ temporal_coupling' = temporal_coupling ]_vars

\* The equation has returned a value on a fully supplied model.
C10_Witness ==
    ret.op = "unified" /\ ret.status = "ok" /\ AllSupplied

====
